---- MODULE Spec2Model ----
(***************************************************************************)
(* A model of pycanape: the FIFO reader of daq.py, the error check of the  *)
(* mapped DLL functions (cnp_prototype.py), the module cache of canape.py, *)
(* the calibration object factory of calibration_object.py, the            *)
(* ActionBuilder of actionbuilder.py and the methods of Module (module.py).*)
(*                                                                         *)
(* The vendor DLL is the environment.  Its contract, as the tests of the   *)
(* repository pin it, is: a call that fails returns a false result and     *)
(* sets a last error code that is a member of ErrorCodes.                  *)
(***************************************************************************)
EXTENDS Integers, Sequences, FiniteSets, TLC

\* ------------------------------------------------------------------ bounds
MaxThreads == 2
MaxSamples == 2
MaxCallers == 2
MaxHandle == 1
MaxObjects == 3
MaxValueType == 7
MaxConns == 3
MaxActions == 3
MaxWith == 2
MaxListLen == 3

\* --------------------------------------------------------------- constants
\* math.nan, the value and the timestamp of the initial sample
NaN == 0 - 1
\* ErrorCodes.AEC_NO_VALUES_SAMPLED
AEC_NO_VALUES_SAMPLED == 17
\* ErrorCodes.AEC_INVALID_MODULE_HDL
AEC_INVALID_MODULE_HDL == 7
\* ErrorCodes.AEC_UNKNOWN_MODULE_NAME
AEC_UNKNOWN_MODULE_NAME == 30

\* The channel names a client uses.
ChannelNames == <<"a", "b">>
Channels == {ChannelNames[i] : i \in 1..Len(ChannelNames)}
\* The values a sampled signal takes.
SampleValues == {NaN, 1}
\* The user operations of a FifoReader.
UserOps == {"get_sample", "get_value", "channel_names", "add_channel", "clear_channels"}

VARIABLES
    \* ---- FifoReader (daq.py)
    stopped,      \* FifoReader.stopped
    thread,       \* FifoReader._thread: 0 is None, else a thread id
    tpc,          \* position of every reader thread
    tleft,        \* iterations left in the for loop of a reader thread
    tdie,         \* the CANapeError a reader thread re-raises after the finally
    lock,         \* FifoReader._lock: 0 free, else its holder
    channels,     \* FifoReader._channels: the ordered dict, <<name, Sample>>
    count,        \* FifoReader._count
    fifo,         \* the FIFO of the DLL: sampled vectors not yet retrieved
    clock,        \* number of vectors the DLL has sampled
    upc, uop, uarg, usample, uret,   \* the client thread and its call
    epc, ekind, ethread,             \* the event handler running in _on_event
    window,       \* history: a start event was delivered, the next stop has not completed
    drained,      \* history: per channel, the samples drained since it was added
    poll,         \* history: what the poll iteration holding the mutex has done
    \* ---- CANapeDll (cnp_prototype.py)
    dllLock,      \* CANapeDll.lock, the RLock: 0 free, else the thread owning it
    lastError,    \* the last error code the DLL holds (Asap3GetLastError)
    cpc,          \* position of every calling thread in a mapped function
    cfunc,        \* the mapped function the thread calls
    cresult,      \* the result the native function returned to the thread
    cexc,         \* the exception the call of the thread raises
    cown,         \* per caller: the error code its own native call set, 0 if none
    \* ---- CANape (canape.py) and the modules of the DLL
    dllModules,   \* the module table of the DLL: handle -> module name, "" if invalid
    modules,      \* CANape._modules: handle value -> Module object
    heap,         \* the Module objects created: object -> its module_handle.value
    mret,         \* the last call of a module method and what it returned or raised
    \* ---- calibration_object.py and the database of the module
    calDb,        \* what Asap3GetDBObjectInfo reports for every object name
    calRet,        \* the last call of get_calibration_object and its outcome
    \* ---- actionbuilder.py
    abAction,  \* the _action of the builder, a tree of functions and builders
    abNames,  \* the functions given to ActionBuilder and also, in that order
    abCanape,  \* the canape attribute: 0 when it is not set, else a connection
    abWith,  \* the connections opened by the __enter__ of every with block that is open
    conns,  \* every CANape object created by the builder: open or closed
    abPc,  \* where __call__ is
    abArg,  \* the canape argument of __call__, 0 for None
    abLog,  \* what the current or last __call__ did, in order
    abRet,  \* what the last __call__ returned or raised
    abExit,  \* what the last __exit__ closed and what its __enter__ had opened
    \* ---- Module (module.py) and what the DLL holds for it
    ecuState,  \* the ECU state the DLL holds for the module
    lastSwitch,  \* the argument of the last switch_ecu_on_offline that succeeded
    dbObjects,  \* the object names in the database of the module
    lists,  \* the list objects: 1 is the one of _objects_cache, 2 the one last returned
    objectsCache,  \* Module._objects_cache: 0 for None, else a list object
    held,  \* the list object the caller holds, 0 for none
    modRet,  \* the last call of a method of Module and what it returned or raised
    \* ---- CANape callbacks (canape.py)
    callbacks,  \* CANape._callbacks: event code -> set of callbacks (membership count per callback)
    cbLock,  \* CANape._callback_lock, a Lock: free, or the thread holding it
    dpc,  \* where _on_event is
    devent,  \* the event code delivered
    dtodo,  \* the callbacks the for loop of _on_event has still to call
    dcalls,  \* history: how often _on_event has called every callback
    dwarn,  \* history: the callbacks whose exception became a warning
    dret,  \* what _on_event returned to the DLL, -1 before it returns
    dsnap,  \* history: the set of the delivered event when _on_event took the lock
    rcall,  \* per thread: its call of register_callback or unregister_callback
    \* ---- ScalarCalibrationObject (calibration_object.py)
    coType,  \* object_info.DBObjecttype of the calibration object
    ecuValue,  \* the value the ECU holds for the object
    coRet  \* the last access to the value property and its outcome

daqVars == <<stopped, thread, tpc, tleft, tdie, lock, channels, count, fifo, clock,
             upc, uop, uarg, usample, uret, epc, ekind, ethread,
             window, drained, poll>>

dllVars == <<dllLock, lastError, cpc, cfunc, cresult, cexc, cown>>
\* all of CANapeDll but its lock
dllRest == <<lastError, cpc, cfunc, cresult, cexc, cown>>

modVars == <<dllModules, modules, heap, mret>>

calVars == <<calDb, calRet>>

abVars == <<abAction, abNames, abCanape, abWith, conns, abPc, abArg, abLog, abRet, abExit>>

mdlVars == <<ecuState, lastSwitch, dbObjects, lists, objectsCache, held, modRet>>

cbVars == <<callbacks, cbLock, dpc, devent, dtodo, dcalls, dwarn, dret, dsnap, rcall>>

coVars == <<coType, ecuValue, coRet>>

vars == <<daqVars, dllVars, modVars, calVars, abVars, mdlVars, cbVars, coVars>>

\* what the actions of one component leave alone
notDaq == <<dllRest, modVars, calVars, abVars, mdlVars, cbVars, coVars>>
notDll == <<daqVars, modVars, calVars, abVars, mdlVars, cbVars, coVars>>
notMod == <<daqVars, dllVars, calVars, abVars, mdlVars, cbVars, coVars>>
notCal == <<daqVars, dllVars, modVars, abVars, mdlVars, cbVars, coVars>>
notAb == <<daqVars, dllVars, modVars, calVars, mdlVars, cbVars, coVars>>
notMdl == <<daqVars, dllVars, modVars, calVars, abVars, cbVars, coVars>>
notCb == <<daqVars, dllVars, modVars, calVars, abVars, mdlVars, coVars>>
notCo == <<daqVars, dllVars, modVars, calVars, abVars, mdlVars, cbVars>>

Threads == 1..MaxThreads
User == MaxThreads + 1
Leaked == MaxThreads + 2
\* holders of CANapeDll.lock: the thread in start_data_acquisition or
\* stop_data_acquisition, and another thread in some call of the DLL
AcqCaller == MaxCallers + 1
OtherCaller == MaxCallers + 2

\* Sample(timestamp, value) of ecu_task
Sample(ts, v) == <<ts, v>>
InitialSample == Sample(NaN, NaN)

IsAlive(t) == tpc[t] \notin {"unborn", "dead"}
\* Thread(target=self._read_fifo): the new Thread object takes the first free place
NewThread(pcs) == CHOOSE t \in Threads : pcs[t] = "unborn" /\ \A u \in 1..(t - 1) : pcs[u] # "unborn"
\* a finished thread whose reference is dropped is gone
Collect(pcs) == [t \in Threads |-> IF pcs[t] = "dead" THEN "unborn" ELSE pcs[t]]

\* names of the ordered dict, in insertion order
Names(ch) == [i \in 1..Len(ch) |-> ch[i][1]]
HasChannel(ch, c) == \E i \in 1..Len(ch) : ch[i][1] = c
Lookup(ch, c) == ch[CHOOSE i \in 1..Len(ch) : ch[i][1] = c][2]

\* ---------------------------------------------------------------- EcuTask
\* The values of the first n channels of a sampled vector, as Samples.
DaqGetNextSample(entry, n) == [j \in 1..n |-> Sample(entry.ts, entry.vals[j])]
\* What a FIFO call of the ECU task can end with: a result, the CANapeError
\* AEC_NO_VALUES_SAMPLED, or another CANapeError.
FifoCallOutcomes == {"ok", "no_values", "error"}
\* daq_get_fifo_level: the number of sampled vectors waiting in the FIFO
FifoLevelOne(f) == IF Len(f) > 1 THEN 1 ELSE Len(f)
FifoLevel(f) == Len(f)

\* history of one poll iteration: how often the level was read and the timestamps
\* waiting at that moment, the retrievals made (timestamp, values requested),
\* the vectors sampled since the level was read, the CANapeError raised
NoPoll == [reads |-> 0, avail |-> <<>>, got |-> <<>>, arrived |-> 0, raised |-> "none"]
Timestamps(f) == [i \in 1..Len(f) |-> f[i].ts]

\* The DLL samples a vector of values, one per channel, into its FIFO.
DllSample ==
    /\ window
    /\ clock < MaxSamples
    /\ \E vals \in [1..Len(ChannelNames) -> SampleValues] :
          fifo' = Append(fifo, [ts |-> clock + 1, vals |-> vals])
    /\ clock' = clock + 1
    /\ poll' = (IF poll.reads > 0 THEN [poll EXCEPT !.arrived = @ + 1] ELSE poll)
    /\ UNCHANGED <<stopped, thread, tpc, tleft, tdie, lock, channels, count,
                   upc, uop, uarg, usample, uret, epc, ekind, ethread,
                   window, drained>>
    /\ UNCHANGED <<dllLock, notDaq>>

\* ------------------------------------------------------------- FifoReader
\* for j, channel_name in enumerate(self._channels): keep samples[j] unless NaN
ApplySampleAlways(ch, samples) ==
    [j \in 1..Len(ch) |-> <<ch[j][1], samples[j]>>]
ApplySample(ch, samples) ==
    [j \in 1..Len(ch) |->
        IF samples[j][2] # NaN THEN <<ch[j][1], samples[j]>> ELSE ch[j]]

\* history: every channel of the dict has been handed samples[j]
Record(dr, ch, samples) ==
    [c \in Channels |->
        IF HasChannel(ch, c)
        THEN Append(dr[c], samples[CHOOSE j \in 1..Len(ch) : ch[j][1] = c])
        ELSE dr[c]]

\* where a reader thread goes when a call inside the try block raises
AfterRaiseDies(t, outcome) ==
    /\ tpc' = [tpc EXCEPT ![t] = "release"]
    /\ tdie' = [tdie EXCEPT ![t] = TRUE]
AfterRaise(t, outcome) ==
    /\ tpc' = [tpc EXCEPT ![t] = "release"]
    /\ tdie' = [tdie EXCEPT ![t] = (outcome = "error")]

\* _read_fifo, line 82: daq_check_overrun(reset_overrun=True)
ReadInit(t) ==
    /\ tpc[t] = "init"
    /\ dllLock = 0
    /\ \E outcome \in {"ok", "error"} :
          tpc' = [tpc EXCEPT ![t] = IF outcome = "ok" THEN "loop" ELSE "dead"]
    /\ UNCHANGED <<stopped, thread, tleft, tdie, lock, channels, count, fifo, clock,
                   upc, uop, uarg, usample, uret, epc, ekind, ethread,
                   window, drained>>
    /\ UNCHANGED <<dllLock, notDaq>>
    /\ UNCHANGED poll

\* line 84: while not self.stopped
LoopTest(t) ==
    /\ tpc[t] = "loop"
    /\ tpc' = [tpc EXCEPT ![t] = IF stopped THEN "dead" ELSE "acquire"]
    /\ UNCHANGED <<stopped, thread, tleft, tdie, lock, channels, count, fifo, clock,
                   upc, uop, uarg, usample, uret, epc, ekind, ethread,
                   window, drained>>
    /\ UNCHANGED <<dllLock, notDaq>>
    /\ UNCHANGED poll

\* line 85: self._lock.acquire()
ReaderAcquire(t) ==
    /\ tpc[t] = "acquire"
    /\ lock = 0
    /\ lock' = t
    /\ tpc' = [tpc EXCEPT ![t] = "overrun"]
    /\ UNCHANGED <<stopped, thread, tleft, tdie, channels, count, fifo, clock,
                   upc, uop, uarg, usample, uret, epc, ekind, ethread,
                   window, drained>>
    /\ UNCHANGED <<dllLock, notDaq>>
    /\ UNCHANGED poll

\* line 88: self._task.daq_check_overrun()
CheckOverrun(t) ==
    /\ tpc[t] = "overrun"
    /\ dllLock = 0
    /\ \E outcome \in FifoCallOutcomes :
          IF outcome = "ok"
          THEN tpc' = [tpc EXCEPT ![t] = "level"] /\ tdie' = tdie /\ poll' = poll
          ELSE AfterRaise(t, outcome) /\ poll' = [poll EXCEPT !.raised = outcome]
    /\ UNCHANGED <<stopped, thread, tleft, lock, channels, count, fifo, clock,
                   upc, uop, uarg, usample, uret, epc, ekind, ethread,
                   window, drained>>
    /\ UNCHANGED <<dllLock, notDaq>>

\* line 89: range(self._task.daq_get_fifo_level())
GetFifoLevel(t) ==
    /\ tpc[t] = "level"
    /\ dllLock = 0
    /\ \E outcome \in FifoCallOutcomes :
          IF outcome = "ok"
          THEN /\ tleft' = [tleft EXCEPT ![t] = FifoLevel(fifo)]
               /\ tpc' = [tpc EXCEPT ![t] = IF FifoLevel(fifo) = 0 THEN "release" ELSE "drain"]
               /\ tdie' = tdie
               /\ poll' = [poll EXCEPT !.reads = @ + 1, !.avail = Timestamps(fifo)]
          ELSE /\ AfterRaise(t, outcome)
               /\ tleft' = tleft
               /\ poll' = [poll EXCEPT !.raised = outcome]
    /\ UNCHANGED <<stopped, thread, lock, channels, count, fifo, clock,
                   upc, uop, uarg, usample, uret, epc, ekind, ethread,
                   window, drained>>
    /\ UNCHANGED <<dllLock, notDaq>>

\* lines 90-94: one iteration of the for loop
GetNextSample(t) ==
    /\ tpc[t] = "drain"
    /\ dllLock = 0
    /\ \E outcome \in FifoCallOutcomes :
          /\ (outcome = "ok") => Len(fifo) > 0
          /\ IF outcome = "ok"
             THEN LET samples == DaqGetNextSample(Head(fifo), count) IN
                  /\ fifo' = Tail(fifo)
                  /\ channels' = ApplySample(channels, samples)
                  /\ drained' = Record(drained, channels, samples)
                  /\ tleft' = [tleft EXCEPT ![t] = tleft[t] - 1]
                  /\ tpc' = [tpc EXCEPT ![t] = IF tleft[t] = 1 THEN "release" ELSE "drain"]
                  /\ tdie' = tdie
                  /\ poll' = [poll EXCEPT !.got = Append(@, <<Head(fifo).ts, Len(samples)>>)]
             ELSE /\ AfterRaise(t, outcome)
                  /\ poll' = [poll EXCEPT !.raised = outcome]
                  /\ UNCHANGED <<fifo, channels, drained, tleft>>
    /\ UNCHANGED <<stopped, thread, lock, count, clock,
                   upc, uop, uarg, usample, uret, epc, ekind, ethread,
                   window>>
    /\ UNCHANGED <<dllLock, notDaq>>

\* lines 102-103: finally: self._lock.release(); then the re-raise or the sleep
ReaderRelease(t) ==
    /\ tpc[t] = "release"
    /\ lock' = 0
    /\ tpc' = [tpc EXCEPT ![t] = IF tdie[t] THEN "dead" ELSE "sleep"]
    /\ tleft' = [tleft EXCEPT ![t] = 0]
    /\ tdie' = [tdie EXCEPT ![t] = FALSE]
    /\ poll' = NoPoll
    /\ UNCHANGED <<stopped, thread, channels, count, fifo, clock,
                   upc, uop, uarg, usample, uret, epc, ekind, ethread,
                   window, drained>>
    /\ UNCHANGED <<dllLock, notDaq>>

\* line 105: time.sleep(self.refresh_rate)
Sleep(t) ==
    /\ tpc[t] = "sleep"
    /\ tpc' = [tpc EXCEPT ![t] = "loop"]
    /\ UNCHANGED <<stopped, thread, tleft, tdie, lock, channels, count, fifo, clock,
                   upc, uop, uarg, usample, uret, epc, ekind, ethread,
                   window, drained>>
    /\ UNCHANGED <<dllLock, notDaq>>
    /\ UNCHANGED poll

read_fifo(t) ==
    \/ ReadInit(t)
    \/ LoopTest(t)
    \/ ReaderAcquire(t)
    \/ CheckOverrun(t)
    \/ GetFifoLevel(t)
    \/ GetNextSample(t)
    \/ ReaderRelease(t)
    \/ Sleep(t)

\* ---- the client thread: one call of a public method at a time
NoReturn == [kind |-> "none", sample |-> InitialSample, names |-> <<>>]
Returned(kind, sample, names) == [kind |-> kind, sample |-> sample, names |-> names]

\* A call of one of the five methods starts with self._lock.acquire(); the
\* argument is the channel name (unused by two of the methods).
CallNoWait(op, c) ==
    /\ upc = "idle"
    /\ lock' = User
    /\ upc' = "access"
    /\ uop' = op
    /\ uarg' = (IF op \in {"channel_names", "clear_channels"} THEN ChannelNames[1] ELSE c)
    /\ UNCHANGED <<usample, uret>>
    /\ UNCHANGED <<stopped, thread, tpc, tleft, tdie, channels, count, fifo, clock,
                   epc, ekind, ethread, window, drained>>
    /\ UNCHANGED <<dllLock, notDaq>>
    /\ UNCHANGED poll
Call(op, c) ==
    /\ upc = "idle"
    /\ lock = 0
    /\ lock' = User
    /\ upc' = "access"
    /\ uop' = op
    /\ uarg' = (IF op \in {"channel_names", "clear_channels"} THEN ChannelNames[1] ELSE c)
    /\ UNCHANGED <<usample, uret>>
    /\ UNCHANGED <<stopped, thread, tpc, tleft, tdie, channels, count, fifo, clock,
                   epc, ekind, ethread, window, drained>>
    /\ UNCHANGED <<dllLock, notDaq>>
    /\ UNCHANGED poll

\* get_sample line 109, get_value line 116: sample = self._channels[channel_name];
\* a name that is not a key raises KeyError and the release is never reached
ReadSample ==
    /\ upc = "access"
    /\ uop \in {"get_sample", "get_value"}
    /\ IF HasChannel(channels, uarg)
       THEN /\ usample' = Lookup(channels, uarg)
            /\ upc' = "release"
            /\ UNCHANGED <<lock, uret>>
       ELSE /\ upc' = "returned"
            /\ uret' = Returned("KeyError", InitialSample, <<>>)
            /\ lock' = Leaked
            /\ UNCHANGED usample
    /\ UNCHANGED <<stopped, thread, tpc, tleft, tdie, channels, count, fifo, clock,
                   uop, uarg, epc, ekind, ethread, window, drained>>
    /\ UNCHANGED <<dllLock, notDaq>>
    /\ UNCHANGED poll

\* add_channel lines 45-48; daq_setup_channel may raise a CANapeError
AddChannel ==
    /\ upc = "access"
    /\ uop = "add_channel"
    /\ HasChannel(channels, uarg) \/ dllLock = 0
    /\ IF HasChannel(channels, uarg)
       THEN /\ upc' = "release"
            /\ UNCHANGED <<channels, count, drained, lock, uret>>
       ELSE \E outcome \in {"ok", "error"} :
               IF outcome = "ok"
               THEN /\ channels' = Append(channels, <<uarg, InitialSample>>)
                    /\ count' = Len(channels')
                    /\ drained' = [drained EXCEPT ![uarg] = <<>>]
                    /\ upc' = "release"
                    /\ UNCHANGED <<lock, uret>>
               ELSE /\ upc' = "returned"
                    /\ uret' = Returned("CANapeError", InitialSample, <<>>)
                    /\ lock' = Leaked
                    /\ UNCHANGED <<channels, count, drained>>
    /\ UNCHANGED <<stopped, thread, tpc, tleft, tdie, fifo, clock,
                   uop, uarg, usample, epc, ekind, ethread, window>>
    /\ UNCHANGED <<dllLock, notDaq>>
    /\ UNCHANGED poll

\* clear_channels lines 53-54
ClearChannels ==
    /\ upc = "access"
    /\ uop = "clear_channels"
    /\ channels' = <<>>
    /\ count' = Len(channels')
    /\ drained' = [c \in Channels |-> <<>>]
    /\ upc' = "release"
    /\ UNCHANGED <<stopped, thread, tpc, tleft, tdie, lock, fifo, clock,
                   uop, uarg, usample, uret, epc, ekind, ethread, window>>
    /\ UNCHANGED <<dllLock, notDaq>>
    /\ UNCHANGED poll

\* channel_names line 60: names = list(self._channels)
ChannelNamesRead ==
    /\ upc = "access"
    /\ uop = "channel_names"
    /\ upc' = "release"
    /\ UNCHANGED <<stopped, thread, tpc, tleft, tdie, lock, channels, count, fifo, clock,
                   uop, uarg, usample, uret, epc, ekind, ethread,
                   window, drained>>
    /\ UNCHANGED <<dllLock, notDaq>>
    /\ UNCHANGED poll

\* self._lock.release() and the return statement
UserRelease ==
    /\ upc = "release"
    /\ lock' = 0
    /\ upc' = "returned"
    /\ uret' = CASE uop = "get_sample" -> Returned("sample", usample, <<>>)
                 [] uop = "get_value" -> Returned("value", Sample(NaN, usample[2]), <<>>)
                 [] uop = "channel_names" -> Returned("names", InitialSample, Names(channels))
                 [] OTHER -> Returned("None", InitialSample, <<>>)
    /\ UNCHANGED <<stopped, thread, tpc, tleft, tdie, channels, count, fifo, clock,
                   uop, uarg, usample, epc, ekind, ethread,
                   window, drained>>
    /\ UNCHANGED <<dllLock, notDaq>>
    /\ UNCHANGED poll

\* the caller has the result (or the exception) and is free for its next call
Done ==
    /\ upc = "returned"
    /\ upc' = "idle"
    /\ uop' = "channel_names"
    /\ uarg' = ChannelNames[1]
    /\ usample' = InitialSample
    /\ uret' = NoReturn
    /\ UNCHANGED <<stopped, thread, tpc, tleft, tdie, lock, channels, count, fifo, clock,
                   epc, ekind, ethread, window, drained>>
    /\ UNCHANGED <<dllLock, notDaq>>
    /\ UNCHANGED poll

\* ---- the acquisition events: CANape._on_event runs _start or _stop under the
\* callback lock, so one handler runs at a time.  The DLL delivers the event
\* on a thread of its own, or (sync) inside the call of start_data_acquisition
\* or stop_data_acquisition that causes it, which holds CANapeDll.lock.  The event is delivered and
\* _stop line 75, self.stopped = True, runs (for _start: as its line 69).
EventNoFlag(kind) ==
    /\ epc = "idle"
    /\ \E sync \in BOOLEAN :
          IF sync THEN dllLock = 0 /\ dllLock' = AcqCaller ELSE UNCHANGED dllLock
    /\ epc' = "join"
    /\ ekind' = kind
    /\ ethread' = thread
    /\ window' = (window \/ kind = "start")
    /\ UNCHANGED <<stopped, thread, tpc, tleft, tdie, lock, channels, count, fifo, clock,
                   upc, uop, uarg, usample, uret, drained>>
    /\ UNCHANGED notDaq
    /\ UNCHANGED poll
Event(kind) ==
    /\ epc = "idle"
    /\ \E sync \in BOOLEAN :
          IF sync THEN dllLock = 0 /\ dllLock' = AcqCaller ELSE UNCHANGED dllLock
    /\ epc' = "join"
    /\ ekind' = kind
    /\ ethread' = thread
    /\ window' = (window \/ kind = "start")
    /\ stopped' = TRUE
    /\ UNCHANGED <<thread, tpc, tleft, tdie, lock, channels, count, fifo, clock,
                   upc, uop, uarg, usample, uret, drained>>
    /\ UNCHANGED notDaq
    /\ UNCHANGED poll

\* _stop lines 76-79: join the thread if there is one and it is alive, then drop it
StopJoinNoWait ==
    /\ epc = "join"
    /\ thread' = 0
    /\ tpc' = Collect(tpc)
    /\ epc' = "stopped"
    /\ UNCHANGED <<stopped, tleft, tdie, lock, channels, count, fifo, clock,
                   upc, uop, uarg, usample, uret, ekind, ethread,
                   window, drained>>
    /\ UNCHANGED <<dllLock, notDaq>>
    /\ UNCHANGED poll
StopJoin ==
    /\ epc = "join"
    /\ (thread # 0) => ~IsAlive(thread)
    /\ thread' = 0
    /\ tpc' = Collect(tpc)
    /\ epc' = "stopped"
    /\ UNCHANGED <<stopped, tleft, tdie, lock, channels, count, fifo, clock,
                   upc, uop, uarg, usample, uret, ekind, ethread,
                   window, drained>>
    /\ UNCHANGED <<dllLock, notDaq>>
    /\ UNCHANGED poll

\* _stop has returned: the stop event is done, and with it the call of
\* stop_data_acquisition that delivered it
StopReturn ==
    /\ epc = "stopped"
    /\ ekind = "stop"
    /\ epc' = "idle"
    /\ ethread' = 0
    /\ window' = FALSE
    /\ UNCHANGED <<stopped, thread, tpc, tleft, tdie, lock, channels, count, fifo, clock,
                   upc, uop, uarg, usample, uret, ekind, drained>>
    /\ dllLock' = (IF dllLock = AcqCaller THEN 0 ELSE dllLock)
    /\ UNCHANGED notDaq
    /\ UNCHANGED poll

\* _start lines 70-72, after its call of _stop; the call of
\* start_data_acquisition that delivered the event returns
Start ==
    /\ epc = "stopped"
    /\ ekind = "start"
    /\ \E t \in Threads : tpc[t] = "unborn"
    /\ stopped' = FALSE
    /\ thread' = NewThread(tpc)
    /\ tpc' = [tpc EXCEPT ![thread'] = "init"]
    /\ epc' = "idle"
    /\ ekind' = "stop"
    /\ ethread' = 0
    /\ UNCHANGED <<tleft, tdie, lock, channels, count, fifo, clock,
                   upc, uop, uarg, usample, uret, window, drained>>
    /\ dllLock' = (IF dllLock = AcqCaller THEN 0 ELSE dllLock)
    /\ UNCHANGED notDaq
    /\ UNCHANGED poll

\* another thread calls a function of the DLL: _synchronize holds the lock
\* for the time of the call
OtherDllCall ==
    /\ dllLock = 0
    /\ dllLock' = OtherCaller
    /\ UNCHANGED daqVars
    /\ UNCHANGED notDaq

OtherDllReturn ==
    /\ dllLock = OtherCaller
    /\ dllLock' = 0
    /\ UNCHANGED daqVars
    /\ UNCHANGED notDaq

\* FifoReader.__init__ lines 34-39
InitDaq ==
    /\ stopped = TRUE
    /\ thread = 0
    /\ tpc = [t \in Threads |-> "unborn"]
    /\ tleft = [t \in Threads |-> 0]
    /\ tdie = [t \in Threads |-> FALSE]
    /\ lock = 0
    /\ channels = <<>>
    /\ count = 0
    /\ fifo = <<>>
    /\ clock = 0
    /\ upc = "idle"
    /\ uop = "channel_names"
    /\ uarg = ChannelNames[1]
    /\ usample = InitialSample
    /\ uret = NoReturn
    /\ epc = "idle"
    /\ ekind = "stop"
    /\ ethread = 0
    /\ window = FALSE
    /\ drained = [c \in Channels |-> <<>>]
    /\ poll = NoPoll

\* CANapeDll before any call
InitDll ==
    /\ dllLock = 0
    /\ lastError = 0
    /\ cpc = [th \in 1..MaxCallers |-> "idle"]
    /\ cfunc = [th \in 1..MaxCallers |-> "Asap3GetLastError"]
    /\ cresult = [th \in 1..MaxCallers |-> TRUE]
    /\ cexc = [th \in 1..MaxCallers |-> [kind |-> "none", error_code |-> 0, function |-> ""]]
    /\ cown = [th \in 1..MaxCallers |-> 0]

\* CANape.__init__ line 116: self._modules = {}; the project has no module yet
InitMod ==
    /\ dllModules = [h \in 0..MaxHandle |-> ""]
    /\ modules = <<>>
    /\ heap = <<>>
    /\ mret = [op |-> "none", name |-> "", index |-> 0, kind |-> "none", obj |-> 0,
               error_code |-> 0, function |-> "", handle |-> 0,
               before |-> <<>>, created |-> 0]

\* no call of get_calibration_object yet; the database knows no object
InitCal ==
    /\ calDb = [n \in {"KL1", "noise_ampl"} |-> [st |-> "not_found", type |-> 0, code |-> 0]]
    /\ calRet = [op |-> "none", name |-> "", kind |-> "none", class |-> "", type |-> 0]

\* ActionBuilder(): the default action, no canape attribute, nothing opened
InitAb ==
    /\ abAction = <<"id">>
    /\ abNames = <<>>
    /\ abCanape = 0
    /\ abWith = <<>>
    /\ conns = <<>>
    /\ abPc = "idle"
    /\ abArg = 0
    /\ abLog = <<>>
    /\ abRet = [kind |-> "none", obj |-> 0]
    /\ abExit = [closed |-> 0, opened |-> 0]

\* a Module just created: nothing cached, the ECU online, three objects
InitMdl ==
    /\ ecuState = 0
    /\ lastSwitch = "none"
    /\ dbObjects = {<<"a">>, <<"a", "b">>, <<"b">>}
    /\ lists = <<<<>>, <<>>>>
    /\ objectsCache = 0
    /\ held = 0
    /\ modRet = [op |-> "none", arg |-> <<>>, kind |-> "none", val |-> <<>>]

\* EventCode of cnp_constants.py
et_ON_DATA_ACQ_START == 0
et_ON_DATA_ACQ_STOP == 1
et_ON_BEFORE_DATA_ACQ_START == 2
et_ON_CLOSEPROJECT == 3
et_ON_OPENPROJECT == 4
et_ON_CLOSECANAPE == 5
EventCode == {et_ON_DATA_ACQ_START, et_ON_DATA_ACQ_STOP, et_ON_BEFORE_DATA_ACQ_START,
              et_ON_CLOSEPROJECT, et_ON_OPENPROJECT, et_ON_CLOSECANAPE}
\* the callables a client registers
CallbackFuncs == {"f", "g", "h"}
\* set(): no callable is a member
EmptySet == [f \in CallbackFuncs |-> 0]
\* the thread on which the DLL calls _on_event, and a thread of the client
\* the value of a Lock nobody holds
Free == "free"
DllThread == "dll"
ClientThread == "client"
CallbackThreads == {DllThread, ClientThread}
NoRegistryCall == [pc |-> "idle", op |-> "none", event |-> et_ON_DATA_ACQ_START,
                   func |-> "f", ret |-> "none", was |-> FALSE]

\* CANape.__init__ lines 117-123: an empty set for every event code, a free Lock
InitCb ==
    /\ callbacks = [e \in EventCode |-> EmptySet]
    /\ cbLock = Free
    /\ dpc = "idle"
    /\ devent = et_ON_DATA_ACQ_START
    /\ dtodo = EmptySet
    /\ dcalls = EmptySet
    /\ dwarn = {}
    /\ dret = -1
    /\ dsnap = EmptySet
    /\ rcall = [th \in CallbackThreads |-> NoRegistryCall]

\* ObjectType of cnp_constants.py
OTT_MEASURE == 0
OTT_CALIBRATE == 1
OTT_UNKNOWN == 2
ObjectType == {OTT_MEASURE, OTT_CALIBRATE, OTT_UNKNOWN}
\* the values an object can take
MaxValue == 3
Values == 0..MaxValue
NoAccess == [op |-> "none", type |-> OTT_MEASURE, arg |-> 0, kind |-> "none",
             function |-> "", val |-> 0, before |-> 0, writes |-> 0]

\* a calibration object just returned by get_calibration_object
InitCo ==
    /\ coType = OTT_MEASURE
    /\ ecuValue = 0
    /\ coRet = NoAccess

\* the state after construction of every component
InitAll == InitDaq /\ InitDll /\ InitMod /\ InitCal /\ InitAb /\ InitMdl /\ InitCb /\ InitCo

NextDaq ==
    \/ \E t \in Threads : read_fifo(t)
    \/ \E op \in UserOps, c \in Channels : Call(op, c)
    \/ ReadSample
    \/ AddChannel
    \/ ClearChannels
    \/ ChannelNamesRead
    \/ UserRelease
    \/ Done
    \/ \E kind \in {"start", "stop"} : Event(kind)
    \/ StopJoin
    \/ StopReturn
    \/ Start
    \/ DllSample
    \/ OtherDllCall
    \/ OtherDllReturn

SpecDaq == InitAll /\ [][NextDaq]_vars

\* --------------------------------------------------- properties, FifoReader
InDrain(t) == tpc[t] \in {"overrun", "level", "drain", "release"}
AtFifoCall(t) == tpc[t] \in {"init", "overrun", "level", "drain"}

\* C1: at most one reader thread is alive, it is the one self._thread refers
\* to, and when _start has run its _stop (and is about to spawn) none is alive.
C1_OneReaderThread ==
    /\ Cardinality({t \in Threads : IsAlive(t)}) <= 1
    /\ \A t \in Threads : IsAlive(t) => thread = t
    /\ (epc = "stopped") => \A t \in Threads : ~IsAlive(t)

\* a start event found a previous thread, which had polled, and has joined it
C1_Witness ==
    /\ epc = "stopped"
    /\ ekind = "start"
    /\ ethread # 0
    /\ Len(fifo) < clock

\* C2: when _stop returns the flag is set, the thread that ran has terminated
\* and the reference is None; a stop event that finds no thread changes nothing
\* but the flag.
C2_StopReturnsState ==
    (epc = "stopped") =>
        /\ stopped
        /\ thread = 0
        /\ (ethread # 0) => ~IsAlive(ethread)
C2_StopWithoutThread ==
    (ekind' = "stop" /\ epc' # "idle" /\ epc' # epc /\ ethread' = 0) =>
        UNCHANGED <<thread, tpc, tleft, tdie, lock, channels, count, fifo, clock,
                    upc, uop, uarg, usample, uret>>
C2_Stop == []C2_StopReturnsState /\ [][C2_StopWithoutThread]_vars

\* _stop of a stop event has joined a thread that was running
C2_Witness ==
    /\ epc = "stopped"
    /\ ekind = "stop"
    /\ ethread # 0
    /\ Len(fifo) < clock

\* C3: a method that is at its map access holds the mutex and no reader thread
\* is inside a drain iteration; a reader inside one holds the mutex.
C3_MapUnderMutex ==
    /\ (upc \in {"access", "release"}) =>
           (lock = User /\ \A t \in Threads : ~InDrain(t))
    /\ \A t \in Threads : InDrain(t) => lock = t

\* a getter is at its map access while the reader waits for the mutex
C3_Witness ==
    /\ upc = "access"
    /\ uop = "get_sample"
    /\ \E t \in Threads : tpc[t] = "acquire"

\* the last sample of a history whose value is not NaN, else the initial one
LastKnown(seq) ==
    LET good == {i \in 1..Len(seq) : seq[i][2] # NaN} IN
    IF good = {} THEN InitialSample
    ELSE seq[CHOOSE i \in good : \A k \in good : k <= i]

\* C4: the stored sample of every channel is the last drained sample of the
\* channel with a value other than NaN (the initial sample if there is none);
\* get_sample returns it and get_value returns its value.
C4_LastKnownSample ==
    /\ \A i \in 1..Len(channels) :
          channels[i][2] = LastKnown(drained[channels[i][1]])
    /\ (upc = "release" /\ uop \in {"get_sample", "get_value"}) =>
          usample = LastKnown(drained[uarg])
    /\ (upc = "returned" /\ uret.kind = "sample") => uret.sample = usample
    /\ (upc = "returned" /\ uret.kind = "value") => uret.sample[2] = usample[2]

\* get_sample returns a sample with a value although the last drained one was NaN
C4_Witness ==
    /\ upc = "returned"
    /\ uret.kind = "sample"
    /\ uret.sample[2] # NaN
    /\ Len(drained[uarg]) = 2
    /\ drained[uarg][2][2] = NaN
    /\ Lookup(channels, uarg) = uret.sample

\* C5: outside the window from a start event to the completion of the next
\* stop event the reader is stopped, has no thread and makes no FIFO call.
C5_IdleOutsideWindow ==
    (~window) => (stopped /\ thread = 0 /\ \A t \in Threads : ~IsAlive(t))
C5_FifoCallInWindow ==
    (\E t \in Threads : AtFifoCall(t) /\ tpc'[t] # tpc[t]) => window
C5_FifoOnlyWhileStarted == []C5_IdleOutsideWindow /\ [][C5_FifoCallInWindow]_vars

\* a stop event has completed after samples were drained
C5_Witness ==
    /\ ~window
    /\ epc = "idle"
    /\ Len(fifo) < clock

\* the scheduler runs every thread that can take a step: the reader threads
\* (which get a lock that is free again and again), the client inside a
\* method, the handler, and the other caller of the DLL
FairSpecDaq ==
    /\ SpecDaq
    /\ \A t \in Threads : SF_vars(read_fifo(t))
    /\ WF_vars(ReadSample \/ AddChannel \/ ClearChannels \/ ChannelNamesRead \/ UserRelease)
    /\ WF_vars(StopJoin)
    /\ WF_vars(OtherDllReturn)

\* the handler waits in the join of _stop for a reader thread that is alive
JoinWaits == epc = "join" /\ thread # 0 /\ IsAlive(thread)

\* C18: while the handler waits in the join, the reader thread never waits
\* for CANapeDll.lock held by the thread that delivered the event from inside
\* start_data_acquisition or stop_data_acquisition, so the join can return.
C18_StopIsDeadlockFree ==
    JoinWaits => ~(AtFifoCall(thread) /\ dllLock = AcqCaller)

\* stop_data_acquisition holds the DLL lock and its handler waits in the join;
\* the reader holds the reader mutex and waits for the DLL lock
C18_Witness ==
    /\ JoinWaits
    /\ ekind = "stop"
    /\ dllLock = AcqCaller
    /\ tpc[thread] = "overrun"
    /\ lock = thread

\* C19: once stopped is True (set by a handler that does not hold the DLL
\* lock) the reader thread terminates and the join of _stop returns.
C19_JoinReturns == (epc = "join" /\ dllLock # AcqCaller) ~> (epc = "stopped")

\* the handler waits in the join and the reader waits for the reader mutex,
\* which a method that raised has left acquired
C19_Witness ==
    /\ JoinWaits
    /\ dllLock = 0
    /\ tpc[thread] = "acquire"
    /\ lock = Leaked

\* C20: after a method of FifoReader has returned or raised, the reader
\* mutex is not held on behalf of the caller.
C20_MutexFreeAfterCall ==
    (upc \in {"returned", "idle"}) => lock \notin {User, Leaked}

\* get_sample or get_value raised KeyError and the mutex is still acquired
C20_Witness ==
    /\ upc = "returned"
    /\ uret.kind = "KeyError"
    /\ lock = Leaked

\* ------------------------------------------------------------- CANapeDll
Callers == 1..MaxCallers
\* mapped functions: two declared with errcheck=self._get_last_error, and
\* Asap3GetLastError, declared without
MappedFunctions == {"Asap3GetModuleName", "Asap3GetModuleHandle", "Asap3GetLastError"}
HasErrcheck(f) == f # "Asap3GetLastError"
\* the members of ErrorCodes: 1..56 without 39
IsErrorCode(e) == e \in (1..56) \ {39}
\* the last error codes the DLL sets in this model: none, and three of ErrorCodes
DllErrorCodes == {0, AEC_INVALID_MODULE_HDL, AEC_NO_VALUES_SAMPLED, AEC_UNKNOWN_MODULE_NAME}

NoException == [kind |-> "none", error_code |-> 0, function |-> ""]
\* CANapeError(error_code, error_string, function): the message names function
CANapeError(error_code, function) ==
    [kind |-> "CANapeError", error_code |-> error_code, function |-> function]
OtherException(kind) == [kind |-> kind, error_code |-> 0, function |-> ""]

\* _get_last_error(result, function, args), with error_code the value that
\* Asap3GetLastError returns: the exception it raises, if any
get_last_error_any_result(result, function, error_code) ==
    IF error_code > 0
    THEN IF IsErrorCode(error_code)
         THEN CANapeError(error_code, function)
         ELSE OtherException("ValueError")
    ELSE NoException
get_last_error_silent(result, function, error_code) == NoException
get_last_error(result, function, error_code) ==
    IF result THEN NoException
    ELSE IF error_code > 0
         THEN IF IsErrorCode(error_code)
              THEN CANapeError(error_code, function)
              ELSE OtherException("ValueError")
         ELSE NoException

\* _synchronize: with CANapeDll.lock (re-entrant), then the function is called
EnterNoLock(th, f) ==
    /\ cpc[th] = "idle"
    /\ dllLock' = th
    /\ cpc' = [cpc EXCEPT ![th] = "native"]
    /\ cfunc' = [cfunc EXCEPT ![th] = f]
    /\ UNCHANGED <<lastError, cresult, cexc, cown>>
    /\ UNCHANGED notDll
Enter(th, f) ==
    /\ cpc[th] = "idle"
    /\ dllLock \in {0, th}
    /\ dllLock' = th
    /\ cpc' = [cpc EXCEPT ![th] = "native"]
    /\ cfunc' = [cfunc EXCEPT ![th] = f]
    /\ UNCHANGED <<lastError, cresult, cexc, cown>>
    /\ UNCHANGED notDll

\* the native function runs: it succeeds, or fails and sets the last error
Native(th) ==
    /\ cpc[th] = "native"
    /\ \E result \in BOOLEAN, e \in DllErrorCodes :
          /\ cresult' = [cresult EXCEPT ![th] = result]
          /\ lastError' = IF result THEN lastError ELSE e
          /\ cown' = [cown EXCEPT ![th] = IF result THEN 0 ELSE e]
    /\ cpc' = [cpc EXCEPT ![th] = "errcheck"]
    /\ UNCHANGED <<dllLock, cfunc, cexc>>
    /\ UNCHANGED notDll

\* ctypes calls symbol.errcheck, if one was set (line 2735)
ErrCheck(th) ==
    /\ cpc[th] = "errcheck"
    /\ cexc' = [cexc EXCEPT ![th] =
                   IF HasErrcheck(cfunc[th])
                   THEN get_last_error(cresult[th], cfunc[th], lastError)
                   ELSE NoException]
    /\ cpc' = [cpc EXCEPT ![th] = "done"]
    /\ UNCHANGED <<dllLock, lastError, cfunc, cresult, cown>>
    /\ UNCHANGED notDll

\* the with block is left, by the return or by the exception
Leave(th) ==
    /\ cpc[th] = "done"
    /\ dllLock' = 0
    /\ cpc' = [cpc EXCEPT ![th] = "idle"]
    /\ cfunc' = [cfunc EXCEPT ![th] = "Asap3GetLastError"]
    /\ cresult' = [cresult EXCEPT ![th] = TRUE]
    /\ cexc' = [cexc EXCEPT ![th] = NoException]
    /\ cown' = [cown EXCEPT ![th] = 0]
    /\ UNCHANGED lastError
    /\ UNCHANGED notDll

NextDll ==
    \/ \E th \in Callers, f \in MappedFunctions : Enter(th, f)
    \/ \E th \in Callers : Native(th)
    \/ \E th \in Callers : ErrCheck(th)
    \/ \E th \in Callers : Leave(th)

SpecDll == InitAll /\ [][NextDll]_vars

\* C6: a call of a function declared with the error check raises CANapeError
\* exactly when the result is false and the last error code of the DLL is
\* greater than 0; the error carries that code and the name of the function;
\* a call with a true result raises nothing.
C6_ErrorCheck ==
    \A th \in Callers :
        (cpc[th] = "done" /\ HasErrcheck(cfunc[th])) =>
            /\ (cexc[th].kind = "CANapeError") <=> (~cresult[th] /\ lastError > 0)
            /\ (cexc[th].kind = "CANapeError") =>
                   (cexc[th].error_code = lastError /\ cexc[th].function = cfunc[th])
            /\ cresult[th] => cexc[th].kind = "none"
            /\ cexc[th].kind \in {"none", "CANapeError"}

\* Asap3GetModuleName returned false with the last error set to the invalid
\* handle code, and the call raised CANapeError
C6_Witness ==
    /\ cpc[1] = "done"
    /\ cfunc[1] = "Asap3GetModuleName"
    /\ ~cresult[1]
    /\ lastError = AEC_INVALID_MODULE_HDL
    /\ cexc[1] = CANapeError(AEC_INVALID_MODULE_HDL, "Asap3GetModuleName")

\* a caller is inside the with block of _synchronize
InDll(th) == cpc[th] # "idle"

\* C17: the calls into the DLL are serialised by one lock, and the error code
\* of a CANapeError is the one that the failing call of the raising thread
\* set, never that of a call of another thread.
C17_ErrorOfOwnCall ==
    /\ \A t1, t2 \in Callers : (InDll(t1) /\ InDll(t2)) => t1 = t2
    /\ \A th \in Callers : InDll(th) => dllLock = th
    /\ \A th \in Callers :
          (cpc[th] = "done" /\ cexc[th].kind = "CANapeError") =>
              cexc[th].error_code = cown[th]

\* the call of caller 2 raised CANapeError with the code its own call set,
\* while caller 1 is not in the DLL
C17_Witness ==
    /\ cpc[2] = "done"
    /\ cexc[2].kind = "CANapeError"
    /\ cexc[2].error_code = AEC_UNKNOWN_MODULE_NAME
    /\ cown[2] = AEC_UNKNOWN_MODULE_NAME
    /\ cpc[1] = "idle"

\* ----------------------------------------------------------------- CANape
\* the handle values the DLL gives to modules
Handles == 0..MaxHandle
\* the module_index arguments of get_module_by_index: the handles and one more
Indexes == 0..(MaxHandle + 1)
ModuleNames == {"XCPsim", "CCPsim"}
\* the error codes a failing call of the DLL sets
FailureCodes == DllErrorCodes \ {0}
\* TModulHdl = ctypes.c_ushort: TModulHdl(i).value
TModulHdl(i) == i % 65536
\* the handle is one of a module of the DLL
IsValidHandle(h) == h \in Handles /\ dllModules[h] # ""

\* what a call returns or raises, with the handle the DLL reported, the cache
\* before the call and the number of Module objects the call created
Outcome(op, name, index, kind, obj, exc, handle) ==
    [op |-> op, name |-> name, index |-> index, kind |-> kind, obj |-> obj,
     error_code |-> exc.error_code, function |-> exc.function, handle |-> handle,
     before |-> modules, created |-> Len(heap') - Len(heap)]

\* lines 261-268 and 300-307: if module_handle.value not in self._modules a
\* Module is created and cached; the result is <<cache, objects>>
GetOrCreateAlwaysNew(mods, hp, h) ==
    <<[k \in DOMAIN mods \cup {h} |-> IF k = h THEN Len(hp) + 1 ELSE mods[k]],
      Append(hp, h)>>
GetOrCreate(mods, hp, h) ==
    IF h \in DOMAIN mods
    THEN <<mods, hp>>
    ELSE <<[k \in DOMAIN mods \cup {h} |-> IF k = h THEN Len(hp) + 1 ELSE mods[k]],
           Append(hp, h)>>

\* lines 334-335: the entry of an invalid handle is removed from the cache
PopKeep(mods, h) == mods
Pop(mods, h) == [k \in DOMAIN mods \ {h} |-> mods[k]]

\* the call raises exc: nothing of the cache changes
Raise(op, name, index, exc) ==
    /\ UNCHANGED <<modules, heap>>
    /\ mret' = Outcome(op, name, index, exc.kind, 0, exc, 0)

\* the Module of handle h is returned, from the cache or new
ReturnModule(op, name, index, h) ==
    LET r == GetOrCreate(modules, heap, h) IN
    /\ Len(r[2]) <= MaxObjects
    /\ modules' = r[1]
    /\ heap' = r[2]
    /\ mret' = Outcome(op, name, index, "Module", r[1][h], NoException, h)

\* create_module: Asap3CreateModule3 creates the module (or finds the one of
\* that name) and reports its handle, or fails
CreateModule(name) ==
    \E result \in BOOLEAN, e \in FailureCodes :
        LET exc == get_last_error(result, "Asap3CreateModule3", e)
            named == {h \in Handles : dllModules[h] = name}
            free == {h \in Handles : dllModules[h] = ""}
        IN
        /\ result => (named \cup free) # {}
        /\ IF exc.kind # "none"
           THEN Raise("create_module", name, 0, exc) /\ UNCHANGED dllModules
           ELSE \E h \in (IF ~result THEN {0} ELSE IF named # {} THEN named ELSE free) :
                   /\ dllModules' = IF result THEN [dllModules EXCEPT ![h] = name]
                                    ELSE dllModules
                   /\ ReturnModule("create_module", name, 0, h)
        /\ UNCHANGED notMod

\* get_module_by_name: Asap3GetModuleHandle reports the handle of the module of
\* that name, or fails; module_handle = TModulHdl() is 0 until the DLL sets it
GetModuleByName(name) ==
    \E e \in FailureCodes :
        LET named == {h \in Handles : dllModules[h] = name}
            result == named # {}
            exc == get_last_error(result, "Asap3GetModuleHandle", e)
        IN
        /\ IF exc.kind # "none"
           THEN Raise("get_module_by_name", name, 0, exc)
           ELSE \E h \in (IF result THEN named ELSE {0}) :
                   ReturnModule("get_module_by_name", name, 0, h)
        /\ UNCHANGED dllModules
        /\ UNCHANGED notMod

\* get_module_by_index lines 317-344; module.get_module_name() is the validity
\* check: Asap3GetModuleName fails for a handle that is not valid
GetModuleByIndex(i) ==
    \E e \in FailureCodes :
        LET h == TModulHdl(i)
            valid == IsValidHandle(h)
            exc == get_last_error(valid, "Asap3GetModuleName", e)
        IN
        /\ IF exc.kind = "CANapeError"
           THEN /\ modules' = (IF h \in DOMAIN modules THEN Pop(modules, h) ELSE modules)
                /\ heap' = heap
                /\ mret' = Outcome("get_module_by_index", "", i, "CANapeError", 0,
                                   CANapeError(AEC_INVALID_MODULE_HDL,
                                               "CANape.get_module_by_index"), h)
           ELSE IF exc.kind # "none"
           THEN Raise("get_module_by_index", "", i, exc)
           ELSE IF ~valid
           THEN \* buffer.value is None: None has no decode
                Raise("get_module_by_index", "", i, OtherException("AttributeError"))
           ELSE ReturnModule("get_module_by_index", "", i, h)
        /\ UNCHANGED dllModules
        /\ UNCHANGED notMod

\* Module.release_module of a Module object: Asap3ReleaseModule makes its handle
\* invalid, or fails if it is invalid already
ReleaseModule(obj) ==
    \E e \in FailureCodes :
        LET h == heap[obj]
            valid == IsValidHandle(h)
            exc == get_last_error(valid, "Asap3ReleaseModule", e)
        IN
        /\ dllModules' = IF valid THEN [dllModules EXCEPT ![h] = ""] ELSE dllModules
        /\ UNCHANGED <<modules, heap>>
        /\ mret' = Outcome("release_module", "", obj, IF exc.kind = "none" THEN "None" ELSE exc.kind,
                           0, exc, h)
        /\ UNCHANGED notMod

NextMod ==
    \/ \E name \in ModuleNames : CreateModule(name)
    \/ \E name \in ModuleNames : GetModuleByName(name)
    \/ \E i \in Indexes : GetModuleByIndex(i)
    \/ \E obj \in 1..Len(heap) : ReleaseModule(obj)

SpecMod == InitAll /\ [][NextMod]_vars

\* C7: get_module_by_index(i) of a handle that is not valid raises CANapeError
\* with AEC_INVALID_MODULE_HDL and leaves no cache entry for i; of a valid handle
\* it returns a Module with handle i, cached under i.
C7_GetModuleByIndex ==
    (mret.op = "get_module_by_index") =>
        IF IsValidHandle(mret.index)
        THEN /\ mret.kind = "Module"
             /\ heap[mret.obj] = mret.index
             /\ mret.index \in DOMAIN modules
             /\ modules[mret.index] = mret.obj
        ELSE /\ mret.kind = "CANapeError"
             /\ mret.error_code = AEC_INVALID_MODULE_HDL
             /\ mret.index \notin DOMAIN modules

\* the handle of a released module was cached; the lookup raised and removed it
C7_Witness ==
    /\ mret.op = "get_module_by_index"
    /\ mret.kind = "CANapeError"
    /\ mret.index \in DOMAIN mret.before
    /\ mret.index \notin DOMAIN modules

\* C8: get_module_by_name of a name no module has raises CANapeError, creates
\* no Module and leaves the cache as it was.
C8_GetModuleByNameNoMatch ==
    (mret.op = "get_module_by_name" /\ \A h \in Handles : dllModules[h] # mret.name) =>
        /\ mret.kind = "CANapeError"
        /\ modules = mret.before
        /\ mret.created = 0

\* the lookup failed while the cache held a Module, and handle 0 was not cached
C8_Witness ==
    /\ mret.op = "get_module_by_name"
    /\ mret.kind = "CANapeError"
    /\ DOMAIN modules # {}
    /\ 0 \notin DOMAIN modules

\* C9: every cached Module has the handle it is cached under; create_module,
\* get_module_by_name and get_module_by_index return the Module of the handle
\* the DLL reports, which is the cached one, and the instance cached before the
\* call if there was one.
C9_ModuleCache ==
    /\ \A k \in DOMAIN modules :
          modules[k] \in 1..Len(heap) /\ heap[modules[k]] = k
    /\ (mret.kind = "Module") =>
          /\ heap[mret.obj] = mret.handle
          /\ mret.handle \in DOMAIN modules
          /\ modules[mret.handle] = mret.obj
          /\ (mret.handle \in DOMAIN mret.before) =>
                (mret.obj = mret.before[mret.handle] /\ mret.created = 0)
          /\ (mret.handle \notin DOMAIN mret.before) => mret.created = 1
          /\ (mret.op = "get_module_by_name") => dllModules[mret.handle] = mret.name
          /\ (mret.op = "create_module") => dllModules[mret.handle] = mret.name

\* a lookup by name resolved to a handle that was cached and returned that Module
C9_Witness ==
    /\ mret.op = "get_module_by_name"
    /\ mret.kind = "Module"
    /\ mret.handle \in DOMAIN mret.before
    /\ Cardinality(DOMAIN modules) = 2

\* ------------------------------------------------------ calibration_object
ObjectNames == {"KL1", "noise_ampl"}
\* ValueType
VALUE == 0
CURVE == 1
MAP == 2
AXIS == 3
ASCII == 4
VAL_BLK == 5
\* the values of DBObjectInfo.type the DLL may report
ReportedTypes == 0..MaxValueType

\* What Asap3GetDBObjectInfo does for a name: it finds the object and reports
\* its type, it reports that there is none (a false result, no error), or it
\* fails with an error code.
DbEntries ==
    [st : {"found"}, type : ReportedTypes, code : {0}]
    \cup [st : {"not_found"}, type : {0}, code : {0}]
    \cup [st : {"failed"}, type : {0}, code : FailureCodes]

\* cal_obj_map, lines 375-382; "" where the dict has no key
cal_obj_map_swapped(t) ==
    CASE t = VALUE -> "ScalarCalibrationObject"
      [] t = CURVE -> "MapCalibrationObject"
      [] t = MAP -> "CurveCalibrationObject"
      [] t = AXIS -> "AxisCalibrationObject"
      [] t = ASCII -> "AsciiCalibrationObject"
      [] t = VAL_BLK -> "ValueBlockCalibrationObject"
      [] OTHER -> ""
cal_obj_map(t) ==
    CASE t = VALUE -> "ScalarCalibrationObject"
      [] t = CURVE -> "CurveCalibrationObject"
      [] t = MAP -> "MapCalibrationObject"
      [] t = AXIS -> "AxisCalibrationObject"
      [] t = ASCII -> "AsciiCalibrationObject"
      [] t = VAL_BLK -> "ValueBlockCalibrationObject"
      [] OTHER -> ""

\* the database of the module changes
LoadDatabase(name, entry) ==
    /\ calDb[name] # entry
    /\ calDb' = [calDb EXCEPT ![name] = entry]
    /\ calRet' = [op |-> "none", name |-> "", kind |-> "none", class |-> "", type |-> 0]
    /\ UNCHANGED notCal

\* get_calibration_object lines 365-388.  The mapped function returns the
\* native result when its errcheck returns args, so found is that result.
GetCalibrationObject(name) ==
    LET entry == calDb[name]
        found == entry.st = "found"
        exc == get_last_error(found, "Asap3GetDBObjectInfo", entry.code)
        class == cal_obj_map(entry.type)
    IN
    /\ calRet' =
          IF exc.kind # "none"
          THEN [op |-> "get_calibration_object", name |-> name, kind |-> exc.kind,
                class |-> "", type |-> 0]
          ELSE IF ~found
          THEN [op |-> "get_calibration_object", name |-> name, kind |-> "KeyError",
                class |-> "", type |-> 0]
          ELSE IF class = ""
          THEN [op |-> "get_calibration_object", name |-> name, kind |-> "TypeError",
                class |-> "", type |-> 0]
          ELSE [op |-> "get_calibration_object", name |-> name, kind |-> "object",
                class |-> class, type |-> entry.type]
    /\ UNCHANGED calDb
    /\ UNCHANGED notCal

NextCal ==
    \/ \E name \in ObjectNames, entry \in DbEntries : LoadDatabase(name, entry)
    \/ \E name \in ObjectNames : GetCalibrationObject(name)

SpecCal == InitAll /\ [][NextCal]_vars

Returns(class) == calRet.kind = "object" /\ calRet.class = class

FunctionNames == {"f", "g"}
\* the default _action, lambda x: x
Identity == <<"id">>
Fn(n) == <<"fn", n>>
\* an ActionBuilder given as next_action
Builder(action) == <<"builder", action>>
\* also, line 87: lambda x: next_action(self._action(x))
also_reversed(self_action, next_action) == <<"comp", next_action, self_action>>
also(self_action, next_action) == <<"comp", self_action, next_action>>

\* what a call did: <<"open", "", c>>, <<"action", f, c>>, <<"exit", "", c>>
Opened(c) == <<"open", "", c>>
Acted(n, c) == <<"action", n, c>>
Exited(c) == <<"exit", "", c>>

\* action(x) with the log so far: <<the value returned, the log after it>>.
\* A builder called with a connection runs its _action on it and returns the
\* connection (lines 80-82).
RECURSIVE RunAction(_, _, _)
RunAction(action, x, log) ==
    CASE action[1] = "id" -> <<x, log>>
      [] action[1] = "fn" -> <<x, Append(log, Acted(action[2], x))>>
      [] action[1] = "comp" ->
            LET r == RunAction(action[2], x, log) IN RunAction(action[3], r[1], r[2])
      [] action[1] = "builder" -> <<x, RunAction(action[2], x, log)[2]>>

NoReturnYet == [kind |-> "none", obj |-> 0]
NoExitYet == [closed |-> 0, opened |-> 0]
OpenConns == {c \in 1..Len(conns) : conns[c] = "open"}

\* ActionBuilder(f), lines 54-55: a new builder, its canape attribute not set
Construct(n) ==
    /\ abPc = "idle"
    /\ abWith = <<>>
    /\ abAction' = Fn(n)
    /\ abNames' = <<n>>
    /\ abCanape' = 0
    /\ abLog' = <<>>
    /\ abRet' = NoReturnYet
    /\ abExit' = NoExitYet
    /\ UNCHANGED <<abWith, conns, abPc, abArg>>
    /\ UNCHANGED notAb

\* builder.also(next_action), lines 84-87: the new builder takes the place
Also(n, wrapped) ==
    /\ abPc = "idle"
    /\ abWith = <<>>
    /\ Len(abNames) < MaxActions
    /\ abAction' = also(abAction, IF wrapped THEN Builder(Fn(n)) ELSE Fn(n))
    /\ abNames' = Append(abNames, n)
    /\ abCanape' = 0
    /\ abLog' = <<>>
    /\ abRet' = NoReturnYet
    /\ abExit' = NoExitYet
    /\ UNCHANGED <<abWith, conns, abPc, abArg>>
    /\ UNCHANGED notAb

\* __enter__, lines 57-58
AbEnter ==
    /\ abPc = "idle"
    /\ Len(abWith) < MaxWith
    /\ Len(conns) < MaxConns
    /\ conns' = Append(conns, "open")
    /\ abCanape' = Len(conns) + 1
    /\ abWith' = Append(abWith, Len(conns) + 1)
    /\ UNCHANGED <<abAction, abNames, abPc, abArg, abLog, abRet, abExit>>
    /\ UNCHANGED notAb

\* __exit__, lines 60-67: self.canape.exit(self.close_canape)
AbExit ==
    /\ abPc = "idle"
    /\ abWith # <<>>
    /\ conns' = [conns EXCEPT ![abCanape] = "closed"]
    /\ abExit' = [closed |-> abCanape, opened |-> abWith[Len(abWith)]]
    /\ abWith' = SubSeq(abWith, 1, Len(abWith) - 1)
    /\ UNCHANGED <<abAction, abNames, abCanape, abPc, abArg, abLog, abRet>>
    /\ UNCHANGED notAb

\* __call__(canape), lines 75-76: without a connection one is opened and
\* assigned to self.canape
AbCall(canape) ==
    /\ abPc = "idle"
    /\ abArg' = canape
    /\ abRet' = NoReturnYet
    /\ abPc' = "action"
    /\ IF canape = 0
       THEN /\ Len(conns) < MaxConns
            /\ conns' = Append(conns, "open")
            /\ abCanape' = Len(conns) + 1
            /\ abLog' = <<Opened(Len(conns) + 1)>>
       ELSE /\ abLog' = <<>>
            /\ UNCHANGED <<conns, abCanape>>
    /\ UNCHANGED <<abAction, abNames, abWith, abExit>>
    /\ UNCHANGED notAb

\* lines 77 and 81: self._action(self.canape), self._action(canape)
AbCallAction ==
    /\ abPc = "action"
    /\ abLog' = RunAction(abAction, IF abArg = 0 THEN abCanape ELSE abArg, abLog)[2]
    /\ abPc' = IF abArg = 0 THEN "exit" ELSE "return"
    /\ UNCHANGED <<abAction, abNames, abCanape, abWith, conns, abArg, abRet, abExit>>
    /\ UNCHANGED notAb

\* line 78: canape.exit(self.close_canape), where canape is the argument of
\* the call; None has no attribute exit
AbCallExit ==
    /\ abPc = "exit"
    /\ IF abArg = 0
       THEN /\ abRet' = [kind |-> "AttributeError", obj |-> 0]
            /\ UNCHANGED <<conns, abLog>>
       ELSE /\ conns' = [conns EXCEPT ![abArg] = "closed"]
            /\ abLog' = Append(abLog, Exited(abArg))
            /\ abRet' = [kind |-> "return", obj |-> abArg]
    /\ abPc' = "idle"
    /\ UNCHANGED <<abAction, abNames, abCanape, abWith, abArg, abExit>>
    /\ UNCHANGED notAb

\* line 82: return canape
AbCallReturn ==
    /\ abPc = "return"
    /\ abRet' = [kind |-> "return", obj |-> abArg]
    /\ abPc' = "idle"
    /\ UNCHANGED <<abAction, abNames, abCanape, abWith, conns, abArg, abLog, abExit>>
    /\ UNCHANGED notAb

NextAb ==
    \/ \E n \in FunctionNames : Construct(n)
    \/ \E n \in FunctionNames, wrapped \in BOOLEAN : Also(n, wrapped)
    \/ AbEnter
    \/ AbExit
    \/ \E canape \in {0} \cup OpenConns : AbCall(canape)
    \/ AbCallAction
    \/ AbCallExit
    \/ AbCallReturn

SpecAb == InitAll /\ [][NextAb]_vars

\* a call has finished: it returned or raised
CallFinished == abPc = "idle" /\ abRet.kind # "none"
ActionsOf(log) == SelectSeq(log, LAMBDA e : e[1] = "action")
ExpectedActions(c) == [i \in 1..Len(abNames) |-> Acted(abNames[i], c)]

\* C11: a call without a CANape argument opens a connection, runs the action
\* on it, closes it with exit exactly once, in this order, and returns the
\* closed CANape object; a call with an existing CANape runs the action on it,
\* opens and closes nothing and returns it.
C11_CallOpensRunsExits ==
    CallFinished =>
        IF abArg = 0
        THEN /\ abRet.kind = "return"
             /\ abRet.obj \in 1..Len(conns)
             /\ conns[abRet.obj] = "closed"
             /\ abLog = <<Opened(abRet.obj)>> \o ExpectedActions(abRet.obj)
                            \o <<Exited(abRet.obj)>>
        ELSE /\ abRet = [kind |-> "return", obj |-> abArg]
             /\ abLog = ExpectedActions(abArg)

\* the part of C11 that the code keeps: a call with an existing CANape runs
\* the action on it, opens and closes nothing and returns it
C11_CallOnExisting ==
    (CallFinished /\ abArg # 0) =>
        /\ abRet = [kind |-> "return", obj |-> abArg]
        /\ abLog = ExpectedActions(abArg)

\* a call without an argument has raised AttributeError after the action; the
\* connection it opened is still open
C11_Witness ==
    /\ CallFinished
    /\ abArg = 0
    /\ abRet.kind = "AttributeError"
    /\ abNames # <<>>
    /\ abLog = <<Opened(abCanape)>> \o ExpectedActions(abCanape)
    /\ conns[abCanape] = "open"

\* C12: outside a with block the canape attribute refers to no open
\* connection, and __exit__ closes exactly the connection that the matching
\* __enter__ opened.
C12_CanapeOnlyInWith ==
    /\ (abPc = "idle" /\ abWith = <<>>) => (abCanape = 0 \/ conns[abCanape] = "closed")
    /\ abExit.closed = abExit.opened

\* no with block is open, no call is running, and the canape attribute is an
\* open connection
C12_Witness ==
    /\ abPc = "idle"
    /\ abWith = <<>>
    /\ abCanape # 0
    /\ conns[abCanape] = "open"

\* C13: one call of the builder that also made runs the functions in the
\* order they were given, each once, on one connection, and opens or closes
\* no connection between two of them.
C13_AlsoRunsInOrder ==
    (abPc \in {"exit", "return"} \/ CallFinished) =>
        LET acts == ActionsOf(abLog) IN
        /\ Len(acts) = Len(abNames)
        /\ \A i \in 1..Len(acts) : acts[i][2] = abNames[i]
        /\ \A i, j \in 1..Len(acts) : acts[i][3] = acts[j][3]
        /\ \A i \in 1..Len(abLog) :
              abLog[i][1] = "action" \/
              ~(\E j \in 1..(i - 1) : abLog[j][1] = "action") \/
              ~(\E k \in (i + 1)..Len(abLog) : abLog[k][1] = "action")

\* f.also(builder of g) was called on an existing connection and returned it
C13_Witness ==
    /\ CallFinished
    /\ abArg # 0
    /\ abAction = also(Fn("f"), Builder(Fn("g")))
    /\ abLog = <<Acted("f", abArg), Acted("g", abArg)>>
    /\ abRet.obj = abArg

\* ------------------------------------------------------------------ Module
\* TAsap3ECUState
TYPE_SWITCH_ONLINE == 0
TYPE_SWITCH_OFFLINE == 1

\* switch_ecu_on_offline lines 128-132: the state passed to Asap3ECUOnOffline
EcuStateOfSwapped(online) == IF online THEN TYPE_SWITCH_OFFLINE ELSE TYPE_SWITCH_ONLINE
EcuStateOf(online) == IF online THEN TYPE_SWITCH_ONLINE ELSE TYPE_SWITCH_OFFLINE
\* is_ecu_online lines 115-118
IsOnline(ecu_state) == ecu_state = TYPE_SWITCH_ONLINE

\* object names are strings, here sequences of characters; the order of the DLL
NameUniverse == <<<<"a">>, <<"a", "b">>, <<"b">>>>
AllNames == {NameUniverse[i] : i \in 1..Len(NameUniverse)}
\* the names given to get_calibration_object
Patterns == {<<"*">>, <<"a", "*">>, <<"*", "b">>, <<"?">>, <<"b", "*", "b">>, <<"a">>}
DbNames(db) == SelectSeq(NameUniverse, LAMBDA n : n \in db)

\* what Asap3GetDatabaseObjects writes to the buffer: every name and a ";"
RECURSIVE DllBuffer(_)
DllBuffer(names) ==
    IF names = <<>> THEN <<>> ELSE names[1] \o <<";">> \o DllBuffer(Tail(names))

\* bytes.strip(b";")
RECURSIVE Strip(_)
Strip(b) ==
    IF b = <<>> THEN b
    ELSE IF b[1] = ";" THEN Strip(Tail(b))
    ELSE IF b[Len(b)] = ";" THEN Strip(SubSeq(b, 1, Len(b) - 1))
    ELSE b

\* [: max_size.value]
Take(b, n) == SubSeq(b, 1, IF n < Len(b) THEN n ELSE Len(b))

\* str.split(";"): the empty string gives one empty name
RECURSIVE Split(_, _)
Split(b, current) ==
    IF b = <<>> THEN <<current>>
    ELSE IF b[1] = ";" THEN <<current>> \o Split(Tail(b), <<>>)
    ELSE Split(Tail(b), Append(current, b[1]))

\* lines 170-193: both calls of Asap3GetDatabaseObjects and the decoding
RetrieveObjects(db) ==
    LET buffer == DllBuffer(DbNames(db))
        max_size == Len(buffer)
    IN Split(Take(Strip(buffer), max_size), <<>>)

\* copy.copy: a new list object; the one the caller held before is dropped
copy_alias(list) == list
copy_copy(list) == 2

\* fnmatch: "*" matches every sequence, "?" one character
RECURSIVE FnMatch(_, _)
FnMatch(name, pat) ==
    IF pat = <<>> THEN name = <<>>
    ELSE IF pat[1] = "*"
         THEN FnMatch(name, Tail(pat)) \/ (name # <<>> /\ FnMatch(Tail(name), pat))
    ELSE /\ name # <<>>
         /\ (pat[1] = "?" \/ pat[1] = name[1])
         /\ FnMatch(Tail(name), Tail(pat))
\* fnmatch.filter(names, pat)
Filter(names, pat) == SelectSeq(names, LAMBDA n : FnMatch(n, pat))

\* get_calibration_object lines 254-257: the name that is looked up
ResolveFirst(name, names) ==
    IF \E i \in 1..Len(name) : name[i] = "*"
    THEN LET filtered == Filter(names, name) IN
         IF Len(filtered) >= 1 THEN filtered[1] ELSE name
    ELSE name
Resolve(name, names) ==
    IF \E i \in 1..Len(name) : name[i] = "*"
    THEN LET filtered == Filter(names, name) IN
         IF Len(filtered) = 1 THEN filtered[1] ELSE name
    ELSE name

ModuleReturn(op, arg, kind, val) == [op |-> op, arg |-> arg, kind |-> kind, val |-> val]
NoCall == ModuleReturn("none", <<>>, "none", <<>>)

\* switch_ecu_on_offline lines 120-139
SwitchEcuOnOffline(online) ==
    \E result \in BOOLEAN, e \in FailureCodes :
        LET exc == get_last_error(result, "Asap3ECUOnOffline", e) IN
        /\ ecuState' = IF result THEN EcuStateOf(online) ELSE ecuState
        /\ lastSwitch' = IF result THEN (IF online THEN "online" ELSE "offline")
                         ELSE lastSwitch
        /\ modRet' = ModuleReturn("switch_ecu_on_offline", <<>>,
                                  IF result THEN "None" ELSE exc.kind, online)
        /\ UNCHANGED <<dbObjects, lists, objectsCache, held>>
        /\ UNCHANGED notMdl

\* is_ecu_online lines 109-118
IsEcuOnline ==
    \E result \in BOOLEAN, e \in FailureCodes :
        LET exc == get_last_error(result, "Asap3IsECUOnline", e) IN
        /\ modRet' = IF result
                     THEN ModuleReturn("is_ecu_online", <<>>, "bool", IsOnline(ecuState))
                     ELSE ModuleReturn("is_ecu_online", <<>>, exc.kind, FALSE)
        /\ UNCHANGED <<ecuState, lastSwitch, dbObjects, lists, objectsCache, held>>
        /\ UNCHANGED notMdl

\* the database of the module changes in CANape (objects are added or
\* removed, or the handle is released and given to a module of another database)
DatabaseChanges(db) ==
    /\ db # {}
    /\ db # dbObjects
    /\ dbObjects' = db
    /\ modRet' = NoCall
    /\ UNCHANGED <<ecuState, lastSwitch, lists, objectsCache, held>>
    /\ UNCHANGED notMdl

\* get_database_objects lines 163-195
GetDatabaseObjects ==
    \E result \in BOOLEAN, e \in FailureCodes :
        LET exc == get_last_error(result, "Asap3GetDatabaseObjects", e) IN
        IF objectsCache = 0 /\ ~result
        THEN /\ modRet' = ModuleReturn("get_database_objects", <<>>, exc.kind, <<>>)
             /\ UNCHANGED <<lists, objectsCache, held>>
             /\ UNCHANGED <<ecuState, lastSwitch, dbObjects>>
             /\ UNCHANGED notMdl
        ELSE LET cached == IF objectsCache = 0 THEN RetrieveObjects(dbObjects)
                           ELSE lists[objectsCache]
                 returned == copy_copy(1)
             IN
             /\ objectsCache' = 1
             /\ held' = returned
             /\ lists' = [[lists EXCEPT ![1] = cached] EXCEPT ![returned] = cached]
             /\ modRet' = ModuleReturn("get_database_objects", <<>>, "list", cached)
             /\ UNCHANGED <<ecuState, lastSwitch, dbObjects>>
             /\ UNCHANGED notMdl

\* the caller changes the list it was given
MutateList ==
    /\ held # 0
    /\ \/ /\ Len(lists[held]) < MaxListLen
          /\ lists' = [lists EXCEPT ![held] = Append(@, <<"x">>)]
       \/ /\ lists[held] # <<>>
          /\ lists' = [lists EXCEPT ![held] = Tail(@)]
    /\ UNCHANGED <<ecuState, lastSwitch, dbObjects, objectsCache, held, modRet>>
    /\ UNCHANGED notMdl

\* Module.get_calibration_object lines 252-264, then the lookup of the name by
\* get_calibration_object of calibration_object.py (lines 365-373)
ModuleGetCalibrationObject(name) ==
    \E result \in BOOLEAN, e \in FailureCodes :
        LET star == \E i \in 1..Len(name) : name[i] = "*"
            exc == get_last_error(result, "Asap3GetDatabaseObjects", e)
            retrieves == star /\ objectsCache = 0
            cached == IF objectsCache = 0 THEN RetrieveObjects(dbObjects)
                      ELSE lists[objectsCache]
            looked == Resolve(name, cached)
        IN
        IF retrieves /\ ~result
        THEN /\ modRet' = ModuleReturn("get_calibration_object", name, exc.kind, <<>>)
             /\ UNCHANGED <<ecuState, lastSwitch, dbObjects, lists, objectsCache, held>>
             /\ UNCHANGED notMdl
        ELSE /\ objectsCache' = IF star THEN 1 ELSE objectsCache
             /\ lists' = IF star THEN [lists EXCEPT ![1] = cached] ELSE lists
             /\ modRet' = ModuleReturn("get_calibration_object", name,
                                       IF looked \in dbObjects THEN "object" ELSE "KeyError",
                                       looked)
             /\ UNCHANGED <<ecuState, lastSwitch, dbObjects, held>>
             /\ UNCHANGED notMdl

NextMdl ==
    \/ \E online \in BOOLEAN : SwitchEcuOnOffline(online)
    \/ IsEcuOnline
    \/ \E db \in SUBSET AllNames : DatabaseChanges(db)
    \/ GetDatabaseObjects
    \/ MutateList
    \/ \E name \in Patterns : ModuleGetCalibrationObject(name)

SpecMdl == InitAll /\ [][NextMdl]_vars

\* C14: after switch_ecu_on_offline(b) succeeds the DLL holds
\* TYPE_SWITCH_ONLINE for b = True and TYPE_SWITCH_OFFLINE for b = False, and
\* is_ecu_online returns b.
C14_SwitchRoundTrip ==
    /\ (modRet.op = "switch_ecu_on_offline" /\ modRet.kind = "None") =>
           ecuState = (IF modRet.val THEN 0 ELSE 1)
    /\ (modRet.op = "is_ecu_online" /\ modRet.kind = "bool" /\ lastSwitch # "none") =>
           (modRet.val <=> lastSwitch = "online")

\* the ECU was switched offline and is_ecu_online returned False
C14_Witness ==
    /\ modRet.op = "is_ecu_online"
    /\ modRet.kind = "bool"
    /\ lastSwitch = "offline"
    /\ modRet.val = FALSE

\* the list a caller is given is never the list object of the cache
C15_ReturnedListIsACopy == held = 0 \/ held # objectsCache

\* C15: every call of get_database_objects returns the object names of the
\* database as it is at the time of the call, and changing a returned list
\* changes the result of no later call.
C15_ReturnsCurrentNames ==
    /\ (modRet.op = "get_database_objects" /\ modRet.kind = "list") =>
           modRet.val = DbNames(dbObjects)
    /\ C15_ReturnedListIsACopy

\* a call returned the cached names although the database holds other names
C15_Witness ==
    /\ modRet.op = "get_database_objects"
    /\ modRet.kind = "list"
    /\ objectsCache = 1
    /\ modRet.val = lists[objectsCache]
    /\ modRet.val # DbNames(dbObjects)

LastN(seq, n) == SubSeq(seq, Len(seq) - n + 1, Len(seq))

\* a call inside the try block raises: the thread goes to the finally, the map
\* and the FIFO stay as they are
C22_RaiseStep ==
    \A t \in Threads :
        (InDrain(t) /\ poll.raised = "none" /\ poll'.raised # "none") =>
            /\ tpc'[t] = "release"
            /\ UNCHANGED <<channels, fifo, lock>>
\* the finally and what follows it: the mutex is released, the map stays, the
\* thread sleeps after AEC_NO_VALUES_SAMPLED and dies after another CANapeError
C22_FinallyStep ==
    \A t \in Threads :
        (tpc[t] = "release" /\ tpc'[t] # "release") =>
            /\ lock = t /\ lock' = 0
            /\ UNCHANGED <<channels, stopped>>
            /\ (poll.raised = "no_values") => tpc'[t] = "sleep"
            /\ (poll.raised = "error") => tpc'[t] = "dead"
\* in the finally after a raise the map holds, per channel, the last sample
\* with a value, the samples retrieved in this iteration included; a thread
\* that sleeps or is dead does not hold the mutex, and a sleeping one goes on
C22_AppliedStay ==
    /\ \A t \in Threads :
          (tpc[t] = "release" /\ poll.raised # "none") =>
              \A i \in 1..Len(channels) :
                  LET d == drained[channels[i][1]] IN
                  /\ Len(d) >= Len(poll.got)
                  /\ \A k \in 1..Len(poll.got) :
                        LastN(d, Len(poll.got))[k][1] = poll.got[k][1]
                  /\ channels[i][2] = LastKnown(d)
    /\ \A t \in Threads : (tpc[t] \in {"sleep", "dead"}) => lock # t
C22_SleepStep ==
    \A t \in Threads : (tpc[t] = "sleep" /\ tpc'[t] # "sleep") => tpc'[t] = "loop"

\* C22: in the reader loop AEC_NO_VALUES_SAMPLED is swallowed and the thread
\* polls on, any other CANapeError ends the thread; in both cases the mutex is
\* released before the thread sleeps or dies and the samples applied earlier
\* in the iteration stay in the map.
C22_ReaderLoopErrors ==
    /\ []C22_AppliedStay
    /\ [][C22_RaiseStep /\ C22_FinallyStep /\ C22_SleepStep]_vars

\* AEC_NO_VALUES_SAMPLED was raised after a sample with a value was applied
C22_Witness ==
    \E t \in Threads :
        /\ tpc[t] = "release"
        /\ poll.raised = "no_values"
        /\ Len(poll.got) = 1
        /\ Len(channels) > 0
        /\ channels[1][2][1] = poll.got[1][1]
        /\ channels[1][2][2] # NaN

\* ------------------------------------------------ CANape callbacks (canape.py)
\* the event codes the client registers callbacks for, and those the DLL delivers
RegisteredEvents == {et_ON_DATA_ACQ_START, et_ON_DATA_ACQ_STOP}
DeliveredEvents == {et_ON_DATA_ACQ_START, et_ON_DATA_ACQ_STOP, et_ON_CLOSECANAPE}
MaxMembership == 2

\* set.add and set.remove
SetAddAgain(s, f) == [s EXCEPT ![f] = IF @ < MaxMembership THEN @ + 1 ELSE @]
SetAdd(s, f) == [s EXCEPT ![f] = 1]
SetRemove(s, f) == [s EXCEPT ![f] = 0]
IsMember(s, f) == s[f] > 0

\* line 135: for func in self._callbacks[event]
IterateAll(cb, event) ==
    [f \in CallbackFuncs |-> IF \E e \in EventCode : IsMember(cb[e], f) THEN 1 ELSE 0]
Iterate(cb, event) == cb[event]

\* _on_event lines 133-135: the DLL delivers an event; the handler takes the
\* callback lock and starts the loop over the set of the event
OnEventBegin(event) ==
    /\ dpc = "idle"
    /\ cbLock = Free
    /\ cbLock' = DllThread
    /\ dpc' = "loop"
    /\ devent' = event
    /\ dtodo' = Iterate(callbacks, event)
    /\ dsnap' = callbacks[event]
    /\ dcalls' = EmptySet
    /\ dwarn' = {}
    /\ dret' = -1
    /\ UNCHANGED <<callbacks, rcall>>
    /\ UNCHANGED notCb

\* lines 136-142: one iteration: func() returns, raises an Exception (caught,
\* a warning is issued), or calls register_callback or unregister_callback of
\* the same CANape object
OnEventCall(func) ==
    /\ dpc = "loop"
    /\ dtodo[func] > 0
    /\ dtodo' = [dtodo EXCEPT ![func] = @ - 1]
    /\ dcalls' = [dcalls EXCEPT ![func] = @ + 1]
    /\ \E outcome \in {"return", "Exception", "registry"} :
          CASE outcome = "return" ->
                  UNCHANGED <<dpc, dwarn, rcall>>
            [] outcome = "Exception" ->
                  /\ dwarn' = dwarn \cup {func}
                  /\ UNCHANGED <<dpc, rcall>>
            [] outcome = "registry" ->
                  /\ dpc' = "callback"
                  /\ \E op \in {"register", "unregister"}, e \in RegisteredEvents,
                        g \in CallbackFuncs :
                        rcall' = [rcall EXCEPT ![DllThread] =
                                     [pc |-> "wait", op |-> op, event |-> e, func |-> g,
                                      ret |-> "none", was |-> FALSE]]
                  /\ UNCHANGED dwarn
    /\ UNCHANGED <<callbacks, cbLock, devent, dret, dsnap>>
    /\ UNCHANGED notCb

\* the loop is over: the with block releases the lock, line 143 returns 0
OnEventReturn ==
    /\ dpc = "loop"
    /\ dtodo = EmptySet
    /\ cbLock' = Free
    /\ dret' = 0
    /\ dpc' = "returned"
    /\ UNCHANGED <<callbacks, devent, dtodo, dcalls, dwarn, dsnap, rcall>>
    /\ UNCHANGED notCb

\* the DLL has the result
OnEventDone ==
    /\ dpc = "returned"
    /\ dpc' = "idle"
    /\ devent' = et_ON_DATA_ACQ_START
    /\ dcalls' = EmptySet
    /\ dwarn' = {}
    /\ dret' = -1
    /\ dsnap' = EmptySet
    /\ UNCHANGED <<callbacks, cbLock, dtodo, rcall>>
    /\ UNCHANGED notCb

\* a client thread calls register_callback or unregister_callback and is at
\* the with statement (lines 148, 154)
RegistryCall(op, event, func) ==
    /\ rcall[ClientThread].pc = "idle"
    /\ rcall' = [rcall EXCEPT ![ClientThread] =
                    [pc |-> "wait", op |-> op, event |-> event, func |-> func,
                     ret |-> "none", was |-> FALSE]]
    /\ UNCHANGED <<callbacks, cbLock, dpc, devent, dtodo, dcalls, dwarn, dret, dsnap>>
    /\ UNCHANGED notCb

\* lines 148-149 and 154-155: the with block gets the lock when it is free
\* (a Lock is not reentrant), changes the set and releases the lock; remove
\* raises KeyError for a callable that is not a member.  As a call made by a
\* callback it returns into _on_event.  (was: history, the callable was a
\* member before the call.)
RegistryApply(th) ==
    /\ rcall[th].pc = "wait"
    /\ cbLock = Free
    /\ LET c == rcall[th]
           was == IsMember(callbacks[c.event], c.func) IN
       IF c.op = "register"
       THEN /\ callbacks' = [callbacks EXCEPT ![c.event] = SetAdd(@, c.func)]
            /\ rcall' = [rcall EXCEPT ![th].pc = "done", ![th].ret = "None",
                                      ![th].was = was]
       ELSE IF IsMember(callbacks[c.event], c.func)
       THEN /\ callbacks' = [callbacks EXCEPT ![c.event] = SetRemove(@, c.func)]
            /\ rcall' = [rcall EXCEPT ![th].pc = "done", ![th].ret = "None",
                                      ![th].was = was]
       ELSE /\ callbacks' = callbacks
            /\ rcall' = [rcall EXCEPT ![th].pc = "done", ![th].ret = "KeyError",
                                      ![th].was = was]
    /\ dpc' = (IF th = DllThread THEN "loop" ELSE dpc)
    /\ UNCHANGED <<cbLock, devent, dtodo, dcalls, dwarn, dret, dsnap>>
    /\ UNCHANGED notCb

\* the caller has the result or the KeyError
RegistryDone(th) ==
    /\ rcall[th].pc = "done"
    /\ rcall' = [rcall EXCEPT ![th] = NoRegistryCall]
    /\ UNCHANGED <<callbacks, cbLock, dpc, devent, dtodo, dcalls, dwarn, dret, dsnap>>
    /\ UNCHANGED notCb

NextCb ==
    \/ \E event \in DeliveredEvents : OnEventBegin(event)
    \/ \E func \in CallbackFuncs : OnEventCall(func)
    \/ OnEventReturn
    \/ OnEventDone
    \/ \E op \in {"register", "unregister"}, event \in RegisteredEvents,
          func \in CallbackFuncs : RegistryCall(op, event, func)
    \/ \E th \in CallbackThreads : RegistryApply(th)
    \/ \E th \in CallbackThreads : RegistryDone(th)

SpecCb == InitAll /\ [][NextCb]_vars

\* --------------------------------------------- properties, CANape callbacks
\* C23: when _on_event returns it has called every callback that was in the
\* set of the delivered event exactly once and no other callback, the
\* callbacks that raised have only caused warnings, and it returns 0.
C23_OnEvent ==
    (dpc = "returned") =>
        /\ dret = 0
        /\ \A f \in CallbackFuncs : dcalls[f] = (IF IsMember(dsnap, f) THEN 1 ELSE 0)
        /\ dwarn \subseteq {f \in CallbackFuncs : IsMember(dsnap, f)}

\* two callbacks of the stop event both raised and both were called; a third,
\* registered for the start event only, was not called
C23_Witness ==
    /\ dpc = "returned"
    /\ dret = 0
    /\ devent = et_ON_DATA_ACQ_STOP
    /\ dwarn = {"f", "g"}
    /\ dcalls = [f \in CallbackFuncs |-> IF f = "h" THEN 0 ELSE 1]
    /\ IsMember(callbacks[et_ON_DATA_ACQ_START], "h")
    /\ ~IsMember(callbacks[et_ON_DATA_ACQ_STOP], "h")

\* there is a set for every event code, and a callable is in it or not
C24_SetPerEvent ==
    /\ DOMAIN callbacks = EventCode
    /\ \A e \in EventCode, f \in CallbackFuncs : callbacks[e][f] \in {0, 1}
\* one dispatch calls a callback at most once, however often it was registered
C24_OneInvocation ==
    \A f \in CallbackFuncs : dcalls[f] <= 1
\* a callback is called only while it is in the set of the delivered event
C24_CalledOnlyIfMember ==
    \A f \in CallbackFuncs : (dcalls'[f] > dcalls[f]) => IsMember(callbacks[devent], f)
\* register_callback makes the callable a member; unregister_callback removes
\* a member and raises KeyError for a callable that is none; no other set and
\* no other member changes
C24_RegistryStep ==
    \A th \in CallbackThreads :
        (rcall[th].pc = "wait" /\ rcall'[th].pc = "done") =>
            LET c == rcall[th] IN
            /\ \A e \in EventCode, f \in CallbackFuncs :
                  (<<e, f>> # <<c.event, c.func>>) => callbacks'[e][f] = callbacks[e][f]
            /\ (c.op = "register") =>
                  (IsMember(callbacks'[c.event], c.func) /\ rcall'[th].ret = "None")
            /\ (c.op = "unregister" /\ IsMember(callbacks[c.event], c.func)) =>
                  (~IsMember(callbacks'[c.event], c.func) /\ rcall'[th].ret = "None")
            /\ (c.op = "unregister" /\ ~IsMember(callbacks[c.event], c.func)) =>
                  (callbacks' = callbacks /\ rcall'[th].ret = "KeyError")

\* C24: the registry holds a set for every EventCode from construction on;
\* a callback registered twice for an event is called once per event, after
\* unregister_callback(e, f) the callback f is not called for e, and
\* unregistering a callback that is not registered raises KeyError and
\* leaves the registry as it is.
C24_Registry ==
    /\ [](C24_SetPerEvent /\ C24_OneInvocation)
    /\ [][C24_CalledOnlyIfMember /\ C24_RegistryStep]_vars

\* f was registered for the stop event a second time, then a stop event was
\* delivered and its loop, now over, has called f once
C24_Witness ==
    /\ rcall[ClientThread].pc = "done"
    /\ rcall[ClientThread].op = "register"
    /\ rcall[ClientThread].event = et_ON_DATA_ACQ_STOP
    /\ rcall[ClientThread].func = "f"
    /\ rcall[ClientThread].was
    /\ dpc = "loop"
    /\ devent = et_ON_DATA_ACQ_STOP
    /\ dtodo = EmptySet
    /\ dcalls["f"] = 1

\* C25: a thread that waits for the callback lock in register_callback or
\* unregister_callback is never the thread that holds it: a callback that
\* calls them during its dispatch completes, and a call from another thread
\* waits only for a dispatch that finishes.
C25_RegistryCallCompletes ==
    \A th \in CallbackThreads : (rcall[th].pc = "wait") => cbLock # th

\* a callback has called unregister_callback: the thread of _on_event holds
\* the lock and waits for it; the client thread waits for it as well
C25_Witness ==
    /\ dpc = "callback"
    /\ cbLock = DllThread
    /\ rcall[DllThread].pc = "wait"
    /\ rcall[DllThread].op = "unregister"
    /\ rcall[ClientThread].pc = "wait"

\* --------------------------------- ScalarCalibrationObject (calibration_object.py)
\* what a call of the DLL ends with: a result, or false and a CANapeError
CallOutcomes == {"ok", "error"}

\* _write_calibration_object_value line 88: the object may be written
CanWriteAny(object_type) == object_type \in ObjectType
CanWrite(object_type) == object_type = OTT_CALIBRATE

\* get_calibration_object returns another object: its type, and what the ECU holds
SelectObject(object_type, v) ==
    /\ coType' = object_type
    /\ ecuValue' = v
    /\ coRet' = NoAccess
    /\ UNCHANGED notCo

\* the value getter, lines 161-163
GetValue ==
    /\ \E read \in CallOutcomes :
          coRet' = IF read = "ok"
                   THEN [NoAccess EXCEPT !.op = "get", !.type = coType, !.kind = "value",
                                         !.val = ecuValue, !.before = ecuValue]
                   ELSE [NoAccess EXCEPT !.op = "get", !.type = coType,
                                         !.kind = "CANapeError",
                                         !.function = "Asap3ReadCalibrationObject2",
                                         !.before = ecuValue]
    /\ UNCHANGED <<coType, ecuValue>>
    /\ UNCHANGED notCo

\* the value setter, lines 166-169, with _write_calibration_object_value,
\* lines 88-96: read the object, put the new value in, check the object type,
\* write the object
SetValue(new_value) ==
    /\ \E read \in CallOutcomes, write \in CallOutcomes :
          LET call == [NoAccess EXCEPT !.op = "set", !.type = coType, !.arg = new_value,
                                       !.before = ecuValue] IN
          IF read = "error"
          THEN /\ coRet' = [call EXCEPT !.kind = "CANapeError",
                                        !.function = "Asap3ReadCalibrationObject2"]
               /\ UNCHANGED ecuValue
          ELSE IF ~CanWrite(coType)
          THEN /\ coRet' = [call EXCEPT !.kind = "TypeError"]
               /\ UNCHANGED ecuValue
          ELSE IF write = "error"
          THEN /\ coRet' = [call EXCEPT !.kind = "CANapeError", !.writes = 1,
                                        !.function = "Asap3WriteCalibrationObject"]
               /\ UNCHANGED ecuValue
          ELSE /\ coRet' = [call EXCEPT !.kind = "None", !.writes = 1]
               /\ ecuValue' = new_value
    /\ UNCHANGED coType
    /\ UNCHANGED notCo

NextCo ==
    \/ \E object_type \in ObjectType, v \in Values : SelectObject(object_type, v)
    \/ GetValue
    \/ \E new_value \in Values : SetValue(new_value)

SpecCo == InitAll /\ [][NextCo]_vars

\* an assignment to an object that is not of type OTT_CALIBRATE has ended
AssignedToMeasurement == coRet.op = "set" /\ coRet.type # OTT_CALIBRATE

\* C26 (as stated): assigning a value to an object whose type is not
\* OTT_CALIBRATE raises TypeError, makes no write call and leaves the value
\* of the ECU unchanged.
C26_AlwaysTypeError ==
    AssignedToMeasurement =>
        /\ coRet.kind = "TypeError"
        /\ coRet.writes = 0
        /\ ecuValue = coRet.before

\* C26 (amended): assigning a value to an object whose type is not
\* OTT_CALIBRATE never returns normally, makes no write call and leaves the
\* value of the ECU unchanged; it raises TypeError unless the read that the
\* setter makes first fails, whose CANapeError is raised instead.
C26_MeasurementNotWritten ==
    AssignedToMeasurement =>
        /\ coRet.kind \in {"TypeError", "CANapeError"}
        /\ (coRet.kind = "CANapeError") => coRet.function = "Asap3ReadCalibrationObject2"
        /\ coRet.writes = 0
        /\ ecuValue = coRet.before

\* a new value assigned to a measurement object raised TypeError
C26_Witness ==
    /\ coRet.op = "set"
    /\ coRet.type = OTT_MEASURE
    /\ coRet.kind = "TypeError"
    /\ coRet.arg # coRet.before
    /\ coRet.writes = 0
    /\ ecuValue = coRet.before

====
